---- MODULE Spec2Model ----
(***************************************************************************)
(* Model of pentatonic.py: chord-symbol parsing, pentatonic scale          *)
(* generation, instrument transposition, solfege rendering and the         *)
(* frequency ranking of run_analysis_gui.                                  *)
(*                                                                         *)
(* Representation.  A Python str is a sequence of one-character strings    *)
(* ("Db" is <<"D","b">>), so that prefixes, find(), strip(), upper() and   *)
(* the `in` tests are computed character by character.  The flat glyph     *)
(* U+266D is the character "U266D".  The katakana syllables of             *)
(* SOLFEGE_SHARP / SOLFEGE_FLAT are written in Latin letters, accidental   *)
(* suffix unchanged (<<"do","#">>, <<"re","b">>).  Python None is the      *)
(* empty sequence for a str and the value documented at each result.       *)
(***************************************************************************)
EXTENDS FiniteSets, Integers, Sequences, TLC

VARIABLES
    pc,                 \* "ready" before the modelled call, "done" after it
    code_name_raw,      \* SpecParse: argument of get_pentatonic_scale_notes
    parsed,             \* SpecParse: result of get_root_and_type
    scale_data,         \* SpecParse: result of get_pentatonic_scale_notes
    instrument_key,     \* SpecKey: argument of get_transposition_semitones
    note_sharp,         \* SpecKey: the sharp-form note to transpose
    semitones,          \* SpecKey: result of get_transposition_semitones
    transposed_note_sharp, \* SpecKey: the transposed note, None when there is no offset
    chord_name_raw,     \* SpecRender: the chord rendered
    render_key,         \* SpecRender: the instrument key it is rendered for
    notes_for_solfege,  \* SpecRender: the spelling chosen for each scale note
    solfege_notes_display, \* SpecRender: the five rendered syllables
    key_var,            \* Spec: content of the instrument-key widget
    measure_count_var,  \* Spec: content of the measure-count widget
    measure_vars,       \* Spec: rows <<chord1, chord2>> of the chord widgets
    outcome,            \* Spec: which exit of run_analysis_gui was taken
    all_measures_data,  \* Spec: chords collected per measure
    all_solfege_notes_for_counting, \* Spec: syllables tallied by the counting phase
    top_3_notes_info,   \* Spec: ranking <<syllable, count>>, at most three entries
    result_text         \* Spec: per measure, per chord, the displayed line

vars == <<pc, code_name_raw, parsed, scale_data, instrument_key, note_sharp,
          semitones, transposed_note_sharp, chord_name_raw, render_key,
          notes_for_solfege, solfege_notes_display, key_var, measure_count_var, measure_vars,
          outcome, all_measures_data, all_solfege_notes_for_counting,
          top_3_notes_info, result_text>>

parseVars == <<code_name_raw, parsed, scale_data>>
keyVars == <<instrument_key, note_sharp, semitones, transposed_note_sharp>>
renderVars == <<chord_name_raw, render_key, notes_for_solfege, solfege_notes_display>>
guiVars == <<key_var, measure_count_var, measure_vars, outcome, all_measures_data,
             all_solfege_notes_for_counting, top_3_notes_info, result_text>>

(***************************************************************************)
(* Bounds of the model.                                                    *)
(***************************************************************************)
MaxLen == 4          \* longest chord symbol drawn in SpecParse
MaxKeyLen == 3       \* longest instrument-key string drawn in SpecKey
MaxMeasures == 2     \* most rows of chord widgets drawn in Spec

(***************************************************************************)
(* Python str primitives.                                                  *)
(***************************************************************************)
Range(s) == {s[i] : i \in 1..Len(s)}

\* None for a str-valued result; `not x` is true of it as of "".
None == <<>>

\* c in s, for a one-character c
Contains(s, c) == \E i \in 1..Len(s) : s[i] = c

\* s.find(c): the 0-based index of the first c, -1 when there is none
Find(s, c) ==
    IF Contains(s, c)
    THEN (CHOOSE i \in 1..Len(s) : s[i] = c /\ \A j \in 1..(i - 1) : s[j] # c) - 1
    ELSE -1

\* s[:i]
Prefix(s, i) == SubSeq(s, 1, i)

UpperLetters == {"A","B","C","D","E","F","G","H","I","J","K","L","M",
                 "N","O","P","Q","R","S","T","U","V","W","X","Y","Z"}
LowerLetters == {"a","b","c","d","e","f","g","h","i","j","k","l","m",
                 "n","o","p","q","r","s","t","u","v","w","x","y","z"}

\* c.isalpha(): digits, "#", blanks and the flat glyph (category So) are not letters
IsAlpha(c) == c \in UpperLetters \cup LowerLetters

\* c.upper() for one character; the flat glyph, digits and signs map to themselves
UpperChar(c) ==
    CASE c = "a" -> "A" [] c = "b" -> "B" [] c = "c" -> "C" [] c = "d" -> "D"
      [] c = "e" -> "E" [] c = "f" -> "F" [] c = "g" -> "G" [] c = "h" -> "H"
      [] c = "i" -> "I" [] c = "j" -> "J" [] c = "k" -> "K" [] c = "l" -> "L"
      [] c = "m" -> "M" [] c = "n" -> "N" [] c = "o" -> "O" [] c = "p" -> "P"
      [] c = "q" -> "Q" [] c = "r" -> "R" [] c = "s" -> "S" [] c = "t" -> "T"
      [] c = "u" -> "U" [] c = "v" -> "V" [] c = "w" -> "W" [] c = "x" -> "X"
      [] c = "y" -> "Y" [] c = "z" -> "Z" [] OTHER -> c

\* s.upper()
Upper(s) == [i \in 1..Len(s) |-> UpperChar(s[i])]

IsSpace(c) == c = " "

\* s.strip(): drop the leading and the trailing whitespace
Strip(s) ==
    IF \A i \in 1..Len(s) : IsSpace(s[i])
    THEN <<>>
    ELSE LET first == CHOOSE i \in 1..Len(s) :
                          ~IsSpace(s[i]) /\ \A j \in 1..(i - 1) : IsSpace(s[j])
             last == CHOOSE i \in 1..Len(s) :
                          ~IsSpace(s[i]) /\ \A j \in (i + 1)..Len(s) : IsSpace(s[j])
         IN SubSeq(s, first, last)

\* all strings over `alphabet` of length at most n
StringsUpTo(alphabet, n) == UNION {[1..k -> alphabet] : k \in 0..n}

(***************************************************************************)
(* Pitch tables.                                                           *)
(***************************************************************************)
ENHARMONIC_EQUIVALENTS ==
    (<<"C","#">> :> <<"D","b">>) @@ (<<"D","b">> :> <<"C","#">>) @@
    (<<"D","#">> :> <<"E","b">>) @@ (<<"E","b">> :> <<"D","#">>) @@
    (<<"F","#">> :> <<"G","b">>) @@ (<<"G","b">> :> <<"F","#">>) @@
    (<<"G","#">> :> <<"A","b">>) @@ (<<"A","b">> :> <<"G","#">>) @@
    (<<"A","#">> :> <<"B","b">>) @@ (<<"B","b">> :> <<"A","#">>)

\* 0-based list NOTES_SHARP[i] is NOTES_SHARP[i + 1] here
NOTES_SHARP ==
    << <<"C">>, <<"C","#">>, <<"D">>, <<"D","#">>, <<"E">>, <<"F">>,
       <<"F","#">>, <<"G">>, <<"G","#">>, <<"A">>, <<"A","#">>, <<"B">> >>

NOTE_TO_INT ==
    [note \in Range(NOTES_SHARP) |->
        (CHOOSE i \in 1..Len(NOTES_SHARP) : NOTES_SHARP[i] = note) - 1]

\* each katakana syllable is one character here: "do", "re", "mi", "fa", "so", "la", "si"
SOLFEGE_SHARP ==
    << <<"do">>, <<"do","#">>, <<"re">>, <<"re","#">>, <<"mi">>, <<"fa">>,
       <<"fa","#">>, <<"so">>, <<"so","#">>, <<"la">>, <<"la","#">>, <<"si">> >>

SOLFEGE_FLAT ==
    << <<"do">>, <<"re","b">>, <<"re">>, <<"mi","b">>, <<"mi">>, <<"fa">>,
       <<"so","b">>, <<"so">>, <<"la","b">>, <<"la">>, <<"si","b">>, <<"si">> >>

\* dict.get(key, default)
EnharmonicGet(note, default) ==
    IF note \in DOMAIN ENHARMONIC_EQUIVALENTS THEN ENHARMONIC_EQUIVALENTS[note] ELSE default

(***************************************************************************)
(* get_root_and_type.  The result record stands for the returned triple;   *)
(* (None, None, None) is NoParse.  `via` names the return statement taken. *)
(***************************************************************************)
NoParse == [root |-> None, is_minor |-> FALSE, notation |-> "None", via |-> "none"]

\* a faulty variant: any "m" after the first character is a minor marker
MinorMarkerIndexAnyFollower(s) ==
    LET m_index == Find(s, "m")
    IN IF Contains(s, "m") /\ m_index > 0 THEN m_index ELSE -1

\* lines 36-39: position of the minor marker, -1 when none is recognised
MinorMarkerIndex(s) ==
    LET m_index == Find(s, "m")
    IN IF Contains(s, "m")
          /\ m_index > 0
          /\ (m_index + 1 = Len(s) \/ ~IsAlpha(s[m_index + 2]))
       THEN m_index ELSE -1

\* lines 32-45
IsMinorChord(s) == MinorMarkerIndex(s) >= 0

RootPartCandidate(s) ==
    IF IsMinorChord(s) THEN Prefix(s, MinorMarkerIndex(s)) ELSE s

\* a faulty variant: only the spellings with an accidental are looked up
IsNoteSpellingAccidentalsOnly(potential_root) ==
    potential_root \in DOMAIN ENHARMONIC_EQUIVALENTS

\* line 51
IsNoteSpelling(potential_root) ==
    potential_root \in Range(NOTES_SHARP) \/ potential_root \in DOMAIN ENHARMONIC_EQUIVALENTS

\* lines 55-60
NotationType(root_note_str) ==
    IF Contains(root_note_str, "#") THEN "sharp"
    ELSE IF Contains(root_note_str, "b") \/ Contains(root_note_str, "U266D") THEN "flat"
    ELSE "natural"

\* a faulty variant: the shortest matching prefix wins
ResolveRootShortest(cand, i, is_minor_chord) ==
    LET hits == {k \in 1..i : IsNoteSpelling(Prefix(cand, k))}
    IN IF hits # {}
       THEN LET k == CHOOSE k \in hits : \A h \in hits : k <= h
            IN [root |-> Prefix(cand, k), is_minor |-> is_minor_chord,
                notation |-> NotationType(Prefix(cand, k)), via |-> "loop"]
       ELSE NoParse

\* a faulty variant: the notation type is read off the whole candidate
ResolveRootStyleOfCandidate(cand, i, is_minor_chord) ==
    LET hits == {k \in 1..i : IsNoteSpelling(Prefix(cand, k))}
    IN IF hits # {}
       THEN LET k == CHOOSE k \in hits : \A h \in hits : k >= h
            IN [root |-> Prefix(cand, k), is_minor |-> is_minor_chord,
                notation |-> NotationType(cand), via |-> "loop"]
       ELSE NoParse

\* lines 48-69: the loop for i = len .. 1, then the one-character fallback
RECURSIVE ResolveRoot(_, _, _)
ResolveRoot(cand, i, is_minor_chord) ==
    IF i >= 1
    THEN IF IsNoteSpelling(Prefix(cand, i))
         THEN [root |-> Prefix(cand, i), is_minor |-> is_minor_chord,
               notation |-> NotationType(Prefix(cand, i)), via |-> "loop"]
         ELSE ResolveRoot(cand, i - 1, is_minor_chord)
    ELSE IF Len(cand) >= 1 /\ <<cand[1]>> \in Range(NOTES_SHARP)
         THEN [root |-> <<cand[1]>>, is_minor |-> is_minor_chord,
               notation |-> "natural", via |-> "fallback"]
         ELSE NoParse

get_root_and_type(s) ==
    IF s = <<>>
    THEN NoParse
    ELSE ResolveRoot(RootPartCandidate(s), Len(RootPartCandidate(s)), IsMinorChord(s))

(***************************************************************************)
(* get_pentatonic_scale_notes.  None is NoScale (empty scale_notes_sharp,  *)
(* which `if scale_data` treats as false).                                 *)
(***************************************************************************)
NoScale == [scale_notes_sharp |-> <<>>, is_minor |-> FALSE, notation |-> "None"]

\* a faulty variant: the two interval lists exchanged
IntervalsSwapped(is_minor_chord) ==
    IF is_minor_chord THEN <<0, 2, 4, 7, 9>> ELSE <<0, 3, 5, 7, 10>>

\* line 94
Intervals(is_minor_chord) ==
    IF is_minor_chord THEN <<0, 3, 5, 7, 10>> ELSE <<0, 2, 4, 7, 9>>

\* lines 82-87
RootForCalc(root_note_str_orig) ==
    IF Contains(root_note_str_orig, "b") \/ Contains(root_note_str_orig, "U266D")
    THEN EnharmonicGet(root_note_str_orig, None)
    ELSE root_note_str_orig

get_pentatonic_scale_notes(s) ==
    LET p == get_root_and_type(s)
        root_for_calc == RootForCalc(p.root)
    IN IF p.root = None THEN NoScale
       ELSE IF root_for_calc = None THEN NoScale
       ELSE IF root_for_calc \notin DOMAIN NOTE_TO_INT THEN NoScale
       ELSE LET root_int == NOTE_TO_INT[root_for_calc]
                intervals == Intervals(p.is_minor)
            IN [scale_notes_sharp |->
                    [k \in 1..Len(intervals) |->
                        NOTES_SHARP[((root_int + intervals[k]) % 12) + 1]],
                is_minor |-> p.is_minor,
                notation |-> p.notation]

(***************************************************************************)
(* get_transposition_semitones and the transposition of one note.          *)
(***************************************************************************)
\* None for the int-valued result of get_transposition_semitones
NoOffset == -1

\* lines 107-114, keyed by the upper-cased key
transpositions ==
    (<<"C">> :> 0) @@ (<<"B","B">> :> 2) @@ (<<"B","U266D">> :> 2) @@
    (<<"E","B">> :> 9) @@ (<<"E","U266D">> :> 9) @@ (<<"F">> :> 7)

\* a faulty variant: unknown keys default to the offset of C
TranspositionsGetDefaultZero(key) ==
    IF key \in DOMAIN transpositions THEN transpositions[key] ELSE 0

\* line 115: transpositions.get(key, None)
TranspositionsGet(key) ==
    IF key \in DOMAIN transpositions THEN transpositions[key] ELSE NoOffset

\* lines 106-115
get_transposition_semitones(key) == TranspositionsGet(Upper(Strip(key)))

\* lines 293-295 (and 346-348)
TransposedNoteSharp(note, transposition) ==
    LET idx_sharp == NOTE_TO_INT[note]
        idx == (idx_sharp + transposition) % 12
    IN NOTES_SHARP[idx + 1]

(***************************************************************************)
(* get_solfege_name and the per-chord rendering of run_analysis_gui.       *)
(***************************************************************************)
\* lines 117-146
get_solfege_name(note_name_sharp_or_flat, base_note_sharp) ==
    LET is_flat_notation ==
            Contains(note_name_sharp_or_flat, "b") \/ Contains(note_name_sharp_or_flat, "U266D")
        note_for_idx ==
            IF is_flat_notation
            THEN EnharmonicGet(note_name_sharp_or_flat, note_name_sharp_or_flat)
            ELSE note_name_sharp_or_flat
    IN IF note_for_idx \notin DOMAIN NOTE_TO_INT
       THEN note_name_sharp_or_flat
       ELSE LET note_index == NOTE_TO_INT[note_for_idx]
                base_index == IF base_note_sharp \in DOMAIN NOTE_TO_INT
                              THEN NOTE_TO_INT[base_note_sharp]
                              ELSE NOTE_TO_INT[<<"C">>]
                relative_index == (note_index - base_index + 12) % 12
            IN IF is_flat_notation
               THEN SOLFEGE_FLAT[relative_index + 1]
               ELSE SOLFEGE_SHARP[relative_index + 1]

\* a faulty variant: the flat spelling only for flat-notated chords
NoteForSolfegeFlatChordsOnly(note, is_minor_chord, notation_type) ==
    IF notation_type = "flat" THEN EnharmonicGet(note, note) ELSE note

\* a faulty variant: the forced mapping of G# names Gb
NoteForSolfegeForcedMistyped(note, is_minor_chord, notation_type) ==
    IF notation_type = "flat" \/ (notation_type = "natural" /\ is_minor_chord)
    THEN IF is_minor_chord /\ note = <<"D","#">> THEN <<"E","b">>
         ELSE IF is_minor_chord /\ note = <<"G","#">> THEN <<"G","b">>
         ELSE IF is_minor_chord /\ note = <<"A","#">> THEN <<"B","b">>
         ELSE EnharmonicGet(note, note)
    ELSE note

\* lines 297-307 (and the identical lines 350-358 of the display phase)
NoteForSolfege(note, is_minor_chord, notation_type) ==
    IF notation_type = "flat" \/ (notation_type = "natural" /\ is_minor_chord)
    THEN IF is_minor_chord /\ note = <<"D","#">> THEN <<"E","b">>
         ELSE IF is_minor_chord /\ note = <<"G","#">> THEN <<"A","b">>
         ELSE IF is_minor_chord /\ note = <<"A","#">> THEN <<"B","b">>
         ELSE EnharmonicGet(note, note)
    ELSE note

\* lines 345-358: note_for_solfege of each scale note of one chord, <<>> when
\* get_pentatonic_scale_notes returns None
SpellChord(chord, transposition) ==
    LET sd == get_pentatonic_scale_notes(chord)
    IN IF sd.scale_notes_sharp = <<>>
       THEN <<>>
       ELSE [k \in 1..Len(sd.scale_notes_sharp) |->
                NoteForSolfege(TransposedNoteSharp(sd.scale_notes_sharp[k], transposition),
                               sd.is_minor, sd.notation)]

\* lines 289-310 (and 339-361): the syllables of one chord, <<>> when
\* get_pentatonic_scale_notes returns None
RenderChord(chord, transposition) ==
    LET sd == get_pentatonic_scale_notes(chord)
    IN IF sd.scale_notes_sharp = <<>>
       THEN <<>>
       ELSE [k \in 1..Len(sd.scale_notes_sharp) |->
                get_solfege_name(
                    NoteForSolfege(TransposedNoteSharp(sd.scale_notes_sharp[k], transposition),
                                   sd.is_minor, sd.notation),
                    <<"C">>)]

\* lines 154-158, without the blank first entry
chord_options ==
    LET roots == Range(NOTES_SHARP) \cup DOMAIN ENHARMONIC_EQUIVALENTS
    IN roots \cup {Append(r, "m") : r \in roots}

\* line 512: the values of the instrument-key combobox
key_options == { <<"C">>, <<"B","b">>, <<"E","b">>, <<"F">> }

(***************************************************************************)
(* run_analysis_gui.                                                       *)
(***************************************************************************)
DigitValue(c) ==
    CASE c = "0" -> 0 [] c = "1" -> 1 [] c = "2" -> 2 [] c = "3" -> 3 [] c = "4" -> 4
      [] c = "5" -> 5 [] c = "6" -> 6 [] c = "7" -> 7 [] c = "8" -> 8 [] c = "9" -> 9
      [] OTHER -> -1

\* ValueError of int()
ValueError == -1

\* lines 258-263: int(s) of a string of decimal digits, ValueError otherwise
RECURSIVE IntOf(_)
IntOf(s) ==
    IF s = <<>> \/ \E i \in 1..Len(s) : DigitValue(s[i]) < 0
    THEN ValueError
    ELSE IF Len(s) = 1
         THEN DigitValue(s[1])
         ELSE 10 * IntOf(SubSeq(s, 1, Len(s) - 1)) + DigitValue(s[Len(s)])

\* lines 270-278: the chords of measure i (0-based), blanks dropped
MeasureChords(rows, i) ==
    IF i < Len(rows)
    THEN LET chord1 == Strip(rows[i + 1][1])
             chord2 == Strip(rows[i + 1][2])
         IN (IF chord1 # <<>> THEN <<chord1>> ELSE <<>>)
                \o (IF chord2 # <<>> THEN <<chord2>> ELSE <<>>)
    ELSE <<>>

\* lines 265-278
CollectMeasures(rows, selected_measures_count) ==
    [m \in 1..selected_measures_count |-> MeasureChords(rows, m - 1)]

\* line 281
AnyChord(measures) == \E m \in 1..Len(measures) : measures[m] # <<>>

RECURSIVE Flatten(_)
Flatten(seqs) == IF seqs = <<>> THEN <<>> ELSE Head(seqs) \o Flatten(Tail(seqs))

\* a faulty variant: the tally stops at the first chord that does not parse
RECURSIVE CountUntilInvalid(_, _)
CountUntilInvalid(chords, transposition) ==
    IF chords = <<>> THEN <<>>
    ELSE IF RenderChord(Head(chords), transposition) = <<>> THEN <<>>
    ELSE RenderChord(Head(chords), transposition)
             \o CountUntilInvalid(Tail(chords), transposition)

SolfegeNotesForCountingUntilInvalid(measures, transposition) ==
    CountUntilInvalid(Flatten(measures), transposition)

\* lines 287-310: the syllables of every chord of every measure, in order;
\* a chord without scale data adds nothing
SolfegeNotesForCounting(measures, transposition) ==
    Flatten([m \in 1..Len(measures) |->
                Flatten([c \in 1..Len(measures[m]) |->
                            RenderChord(measures[m][c], transposition)])])

\* line 312: Counter(list) as its items() in insertion order
RECURSIVE Counter(_)
Counter(list) ==
    IF list = <<>> THEN <<>>
    ELSE LET x == Head(list)
             rest == SelectSeq(Tail(list), LAMBDA y : y # x)
             n == Cardinality({i \in 1..Len(list) : list[i] = x})
         IN << <<x, n>> >> \o Counter(rest)

\* a faulty variant: ties go to the item seen last
RECURSIVE MostCommonLastWins(_, _)
MostCommonLastWins(items, n) ==
    IF n = 0 \/ items = <<>> THEN <<>>
    ELSE LET best == CHOOSE i \in 1..Len(items) :
                         /\ \A j \in 1..Len(items) : items[j][2] <= items[i][2]
                         /\ \A j \in (i + 1)..Len(items) : items[j][2] < items[i][2]
         IN << items[best] >>
                \o MostCommonLastWins(SubSeq(items, 1, best - 1)
                                          \o SubSeq(items, best + 1, Len(items)), n - 1)

\* line 313: Counter.most_common(n), that is sorted(items, key=count,
\* reverse=True)[:n]; the sort is stable, so equal counts keep insertion order
RECURSIVE MostCommon(_, _)
MostCommon(items, n) ==
    IF n = 0 \/ items = <<>> THEN <<>>
    ELSE LET best == CHOOSE i \in 1..Len(items) :
                         /\ \A j \in 1..Len(items) : items[j][2] <= items[i][2]
                         /\ \A j \in 1..(i - 1) : items[j][2] < items[i][2]
         IN << items[best] >>
                \o MostCommon(SubSeq(items, 1, best - 1)
                                  \o SubSeq(items, best + 1, Len(items)), n - 1)

\* lines 331-385: per measure, per chord, the chord name and its syllables;
\* no syllables stands for the invalid-chord line
DisplayLines(measures, transposition) ==
    [m \in 1..Len(measures) |->
        [c \in 1..Len(measures[m]) |->
            [chord |-> measures[m][c],
             notes |-> RenderChord(measures[m][c], transposition)]]]

\* a faulty variant: the chords are inspected before the key
RunAnalysisChordsFirst(key_raw, count_raw, rows) ==
    LET key == Strip(key_raw)
        transposition == get_transposition_semitones(key)
        selected_measures_count == IntOf(count_raw)
        measures == CollectMeasures(rows, selected_measures_count)
        counted == SolfegeNotesForCounting(measures, transposition)
        failed(why) == [outcome |-> why, measures |-> <<>>, counted |-> <<>>,
                        top_3 |-> <<>>, text |-> <<>>]
    IN IF selected_measures_count = ValueError THEN failed("bad_measure_count")
       ELSE IF ~AnyChord(measures)
            THEN [outcome |-> "no_chords", measures |-> measures, counted |-> <<>>,
                  top_3 |-> <<>>, text |-> <<>>]
       ELSE IF key = <<>> THEN failed("no_key")
       ELSE IF transposition = NoOffset THEN failed("invalid_key")
       ELSE [outcome |-> "shown",
             measures |-> measures,
             counted |-> counted,
             top_3 |-> MostCommon(Counter(counted), 3),
             text |-> DisplayLines(measures, transposition)]

\* a faulty variant: a progression whose chords all fail to parse counts as empty
RunAnalysisEmptyWhenNothingCounted(key_raw, count_raw, rows) ==
    LET key == Strip(key_raw)
        transposition == get_transposition_semitones(key)
        selected_measures_count == IntOf(count_raw)
        measures == CollectMeasures(rows, selected_measures_count)
        counted == SolfegeNotesForCounting(measures, transposition)
        failed(why) == [outcome |-> why, measures |-> <<>>, counted |-> <<>>,
                        top_3 |-> <<>>, text |-> <<>>]
    IN IF key = <<>> THEN failed("no_key")
       ELSE IF transposition = NoOffset THEN failed("invalid_key")
       ELSE IF selected_measures_count = ValueError THEN failed("bad_measure_count")
       ELSE IF counted = <<>>
            THEN [outcome |-> "no_chords", measures |-> measures, counted |-> <<>>,
                  top_3 |-> <<>>, text |-> <<>>]
       ELSE [outcome |-> "shown",
             measures |-> measures,
             counted |-> counted,
             top_3 |-> MostCommon(Counter(counted), 3),
             text |-> DisplayLines(measures, transposition)]

\* lines 236-401.  outcome names the exit taken: "no_key" (247-250),
\* "invalid_key" (252-255), "bad_measure_count" (258-263), "no_chords"
\* (281-284), "shown" (286-401).  The three early exits leave nothing
\* collected; every exit but "shown" leaves the welcome text, here <<>>.
RunAnalysis(key_raw, count_raw, rows) ==
    LET key == Strip(key_raw)
        transposition == get_transposition_semitones(key)
        selected_measures_count == IntOf(count_raw)
        measures == CollectMeasures(rows, selected_measures_count)
        counted == SolfegeNotesForCounting(measures, transposition)
        failed(why) == [outcome |-> why, measures |-> <<>>, counted |-> <<>>,
                        top_3 |-> <<>>, text |-> <<>>]
    IN IF key = <<>> THEN failed("no_key")
       ELSE IF transposition = NoOffset THEN failed("invalid_key")
       ELSE IF selected_measures_count = ValueError THEN failed("bad_measure_count")
       ELSE IF ~AnyChord(measures)
            THEN [outcome |-> "no_chords", measures |-> measures, counted |-> <<>>,
                  top_3 |-> <<>>, text |-> <<>>]
       ELSE [outcome |-> "shown",
             measures |-> measures,
             counted |-> counted,
             top_3 |-> MostCommon(Counter(counted), 3),
             text |-> DisplayLines(measures, transposition)]

(***************************************************************************)
(* SpecParse: get_pentatonic_scale_notes (and through it                   *)
(* get_root_and_type) applied to one chord symbol.                         *)
(***************************************************************************)
ParseAlphabet == {"A", "B", "C", "D", "E", "F", "G", "#", "b", "m", "7", "U266D"}

ParseIdle ==
    /\ code_name_raw = <<>>
    /\ parsed = NoParse
    /\ scale_data = NoScale

KeyIdle ==
    /\ instrument_key = <<>>
    /\ note_sharp = <<"C">>
    /\ semitones = NoOffset
    /\ transposed_note_sharp = None

RenderIdle ==
    /\ chord_name_raw = <<>>
    /\ render_key = <<>>
    /\ notes_for_solfege = <<>>
    /\ solfege_notes_display = <<>>

GuiIdle ==
    /\ key_var = <<>>
    /\ measure_count_var = <<>>
    /\ measure_vars = <<>>
    /\ outcome = "welcome"
    /\ all_measures_data = <<>>
    /\ all_solfege_notes_for_counting = <<>>
    /\ top_3_notes_info = <<>>
    /\ result_text = <<>>

InitParse ==
    /\ pc = "ready"
    /\ code_name_raw \in StringsUpTo(ParseAlphabet, MaxLen)
    /\ parsed = NoParse
    /\ scale_data = NoScale
    /\ KeyIdle /\ RenderIdle /\ GuiIdle

ParseChord ==
    /\ pc = "ready"
    /\ parsed' = get_root_and_type(code_name_raw)
    /\ scale_data' = get_pentatonic_scale_notes(code_name_raw)
    /\ pc' = "done"
    /\ UNCHANGED <<code_name_raw, keyVars, renderVars, guiVars>>

NextParse == ParseChord

SpecParse == InitParse /\ [][NextParse]_vars

(***************************************************************************)
(* SpecKey: the offset of one instrument-key string and the transposition  *)
(* of one note by it.                                                      *)
(***************************************************************************)
KeyAlphabet == {"C", "c", "B", "b", "E", "e", "F", "f", "G", " ", "U266D"}

InitKey ==
    /\ pc = "ready"
    /\ instrument_key \in StringsUpTo(KeyAlphabet, MaxKeyLen)
    /\ note_sharp \in Range(NOTES_SHARP)
    /\ semitones = NoOffset
    /\ transposed_note_sharp = None
    /\ ParseIdle /\ RenderIdle /\ GuiIdle

TransposeNote ==
    /\ pc = "ready"
    /\ LET transposition == get_transposition_semitones(instrument_key)
       IN /\ semitones' = transposition
          /\ transposed_note_sharp' =
                 IF transposition = NoOffset
                 THEN None
                 ELSE TransposedNoteSharp(note_sharp, transposition)
    /\ pc' = "done"
    /\ UNCHANGED <<instrument_key, note_sharp, parseVars, renderVars, guiVars>>

NextKey == TransposeNote

SpecKey == InitKey /\ [][NextKey]_vars

(***************************************************************************)
(* SpecRender: one chord of chord_options rendered for one instrument key  *)
(* of the key combobox.                                                    *)
(***************************************************************************)
InitRender ==
    /\ pc = "ready"
    /\ chord_name_raw \in chord_options
    /\ render_key \in key_options
    /\ notes_for_solfege = <<>>
    /\ solfege_notes_display = <<>>
    /\ ParseIdle /\ KeyIdle /\ GuiIdle

RenderOneChord ==
    /\ pc = "ready"
    /\ notes_for_solfege' =
           SpellChord(chord_name_raw, get_transposition_semitones(render_key))
    /\ solfege_notes_display' =
           RenderChord(chord_name_raw, get_transposition_semitones(render_key))
    /\ pc' = "done"
    /\ UNCHANGED <<chord_name_raw, render_key, parseVars, keyVars, guiVars>>

NextRender == RenderOneChord

SpecRender == InitRender /\ [][NextRender]_vars

(***************************************************************************)
(* Spec: run_analysis_gui on one content of the widgets.  The handler      *)
(* reads key_var, measure_count_var and measure_vars and rebuilds every    *)
(* result from them (lines 245, 265, 266), so one call per behaviour shows *)
(* all it can do.                                                          *)
(***************************************************************************)
\* instrument keys drawn: two supported ones, an unsupported one, none, a blank
KeyChoices == { <<"C">>, <<"B","b">>, <<"G">>, <<>>, <<" ">> }

\* chord strings drawn: blank, a major chord, a minor chord, an unparseable one
ChordChoices == { <<>>, <<"C">>, <<"A","m">>, <<"H">> }

DigitChar(n) ==
    CASE n = 0 -> "0" [] n = 1 -> "1" [] n = 2 -> "2" [] n = 3 -> "3" [] n = 4 -> "4"
      [] n = 5 -> "5" [] n = 6 -> "6" [] n = 7 -> "7" [] n = 8 -> "8" [] n = 9 -> "9"

\* measure counts drawn: 0 .. MaxMeasures and a text that is no number
CountChoices == { <<DigitChar(n)>> : n \in 0..MaxMeasures } \cup { <<"x">> }

Init ==
    /\ pc = "ready"
    /\ key_var \in KeyChoices
    /\ measure_count_var \in CountChoices
    /\ measure_vars \in UNION {[1..n -> ChordChoices \X ChordChoices] : n \in 0..MaxMeasures}
    /\ outcome = "welcome"
    /\ all_measures_data = <<>>
    /\ all_solfege_notes_for_counting = <<>>
    /\ top_3_notes_info = <<>>
    /\ result_text = <<>>
    /\ ParseIdle /\ KeyIdle /\ RenderIdle

run_analysis_gui ==
    /\ pc = "ready"
    /\ LET r == RunAnalysis(key_var, measure_count_var, measure_vars)
       IN /\ outcome' = r.outcome
          /\ all_measures_data' = r.measures
          /\ all_solfege_notes_for_counting' = r.counted
          /\ top_3_notes_info' = r.top_3
          /\ result_text' = r.text
    /\ pc' = "done"
    /\ UNCHANGED <<key_var, measure_count_var, measure_vars, parseVars, keyVars, renderVars>>

Next == run_analysis_gui

Spec == Init /\ [][Next]_vars

(***************************************************************************)
(* Properties of the chord parser and the scale generator (SpecParse).     *)
(***************************************************************************)
\* the 17 note spellings: twelve sharp-form names and five flats
ValidSpellings ==
    { <<"C">>, <<"C","#">>, <<"D">>, <<"D","#">>, <<"E">>, <<"F">>, <<"F","#">>,
      <<"G">>, <<"G","#">>, <<"A">>, <<"A","#">>, <<"B">>,
      <<"D","b">>, <<"E","b">>, <<"G","b">>, <<"A","b">>, <<"B","b">> }

\* the minor-marker rule as the specification words it: the first "m" is not
\* the first character and is the last character or is followed by a non-letter
FirstM(s) == CHOOSE i \in 1..Len(s) : s[i] = "m" /\ \A j \in 1..(i - 1) : s[j] # "m"

MarkerRecognised(s) ==
    /\ \E i \in 1..Len(s) : s[i] = "m"
    /\ FirstM(s) > 1
    /\ (FirstM(s) = Len(s) \/ s[FirstM(s) + 1] \notin UpperLetters \cup LowerLetters)

CandidateOf(s) == IF MarkerRecognised(s) THEN SubSeq(s, 1, FirstM(s) - 1) ELSE s

ValidPrefixLengths(cand) == {k \in 1..Len(cand) : SubSeq(cand, 1, k) \in ValidSpellings}

IsLongestValidPrefix(root, cand) ==
    /\ Len(root) \in ValidPrefixLengths(cand)
    /\ root = SubSeq(cand, 1, Len(root))
    /\ \A k \in ValidPrefixLengths(cand) : k <= Len(root)

\* C1: for every non-empty chord symbol the returned root is the longest
\* prefix of the root candidate that is one of the 17 valid note spellings; a
\* shorter valid prefix is never returned when a longer one exists, and a
\* root is returned whenever some prefix of the candidate is valid.
C1_LongestPrefixRoot ==
    (pc = "done" /\ code_name_raw # <<>>) =>
        LET cand == CandidateOf(code_name_raw)
        IN IF ValidPrefixLengths(cand) = {}
           THEN parsed.root = None
           ELSE IsLongestValidPrefix(parsed.root, cand)

\* "C#7": both "C" and "C#" are valid prefixes and "C#" is returned
C1_Witness ==
    /\ pc = "done"
    /\ code_name_raw = <<"C", "#", "7">>
    /\ parsed.root = <<"C", "#">>

StyleOfSpelling(root) ==
    IF \E i \in 1..Len(root) : root[i] = "#" THEN "sharp"
    ELSE IF \E i \in 1..Len(root) : root[i] \in {"b", "U266D"} THEN "flat"
    ELSE "natural"

PitchClassOf(root) ==
    CASE root = <<"C">> -> 0
      [] root \in {<<"C","#">>, <<"D","b">>} -> 1
      [] root = <<"D">> -> 2
      [] root \in {<<"D","#">>, <<"E","b">>} -> 3
      [] root = <<"E">> -> 4
      [] root = <<"F">> -> 5
      [] root \in {<<"F","#">>, <<"G","b">>} -> 6
      [] root = <<"G">> -> 7
      [] root \in {<<"G","#">>, <<"A","b">>} -> 8
      [] root = <<"A">> -> 9
      [] root \in {<<"A","#">>, <<"B","b">>} -> 10
      [] root = <<"B">> -> 11

SharpName(p) ==
    CASE p = 0 -> <<"C">> [] p = 1 -> <<"C","#">> [] p = 2 -> <<"D">>
      [] p = 3 -> <<"D","#">> [] p = 4 -> <<"E">> [] p = 5 -> <<"F">>
      [] p = 6 -> <<"F","#">> [] p = 7 -> <<"G">> [] p = 8 -> <<"G","#">>
      [] p = 9 -> <<"A">> [] p = 10 -> <<"A","#">> [] p = 11 -> <<"B">>

MajorPentatonic == <<0, 2, 4, 7, 9>>
MinorPentatonic == <<0, 3, 5, 7, 10>>

ScaleOf(root, minor) ==
    LET iv == IF minor THEN MinorPentatonic ELSE MajorPentatonic
    IN [k \in 1..5 |-> SharpName((PitchClassOf(root) + iv[k]) % 12)]

\* C4: for every chord symbol that parses, get_pentatonic_scale_notes returns
\* exactly 5 pairwise distinct sharp-form names, in the order r+0, r+2, r+4,
\* r+7, r+9 (major) or r+0, r+3, r+5, r+7, r+10 (minor) mod 12, r being the
\* pitch class of the root with a flat root taken as its enharmonic sharp;
\* the first element is the root.
C4_PentatonicScale ==
    (pc = "done" /\ parsed.root # None) =>
        /\ Len(scale_data.scale_notes_sharp) = 5
        /\ \A i, j \in 1..5 :
               i # j => scale_data.scale_notes_sharp[i] # scale_data.scale_notes_sharp[j]
        /\ scale_data.scale_notes_sharp = ScaleOf(parsed.root, parsed.is_minor)
        /\ scale_data.scale_notes_sharp[1] = SharpName(PitchClassOf(parsed.root))
        /\ scale_data.is_minor = parsed.is_minor
        /\ scale_data.notation = parsed.notation

\* "Dbm": a flat-spelled minor chord, computed as C# minor
C4_Witness ==
    /\ pc = "done"
    /\ code_name_raw = <<"D", "b", "m">>
    /\ scale_data.scale_notes_sharp =
           << <<"C","#">>, <<"E">>, <<"F","#">>, <<"G","#">>, <<"B">> >>

NaturalNoteLetters == {"A", "B", "C", "D", "E", "F", "G"}

\* C11: for every non-empty chord symbol, parsing succeeds exactly when the
\* first character is one of the uppercase letters A to G; every result comes
\* from the longest-prefix loop, never from the one-character natural-root
\* fallback, and a symbol that starts with a lowercase letter, with "m" or
\* with any other character is not recognised.
C11_FirstLetterDecides ==
    (pc = "done" /\ code_name_raw # <<>>) =>
        /\ parsed.root # None <=> code_name_raw[1] \in NaturalNoteLetters
        /\ parsed.via # "fallback"
        /\ parsed.root # None => parsed.via = "loop"
        /\ parsed.root = None => (parsed.via = "none" /\ scale_data = NoScale)

\* "G7b": no two-character prefix is a spelling, and the loop reaches "G"
C11_Witness ==
    /\ pc = "done"
    /\ code_name_raw = <<"G", "7", "b">>
    /\ parsed.root = <<"G">>
    /\ parsed.via = "loop"

(***************************************************************************)
(* Properties of the transposer (SpecKey).                                 *)
(***************************************************************************)
\* key is `core` with blanks around it
IsTrimmedTo(key, core) ==
    \E i \in 1..Len(key), j \in 1..Len(key) :
        /\ i <= j
        /\ SubSeq(key, i, j) = core
        /\ \A k \in 1..Len(key) : (k < i \/ k > j) => key[k] = " "

NamesKey(key, spellings) == \E core \in spellings : IsTrimmedTo(key, core)

KeyC == { <<"C">>, <<"c">> }
KeyBb == { <<x, y>> : x \in {"B", "b"}, y \in {"B", "b", "U266D"} }
KeyEb == { <<x, y>> : x \in {"E", "e"}, y \in {"B", "b", "U266D"} }
KeyF == { <<"F">>, <<"f">> }

OffsetOfKey(key) ==
    IF NamesKey(key, KeyC) THEN 0
    ELSE IF NamesKey(key, KeyBb) THEN 2
    ELSE IF NamesKey(key, KeyEb) THEN 9
    ELSE IF NamesKey(key, KeyF) THEN 7
    ELSE NoOffset

PrefersFlat(p) == p.notation = "flat" \/ (p.notation = "natural" /\ p.is_minor)

HasSharpSign(syllable) == \E i \in 1..Len(syllable) : syllable[i] = "#"
HasFlatSign(syllable) == \E i \in 1..Len(syllable) : syllable[i] = "b"

\* distance from the reference C of the k-th scale note after transposition
RenderedIndex(p, key, k) ==
    LET iv == IF p.is_minor THEN MinorPentatonic ELSE MajorPentatonic
    IN (PitchClassOf(p.root) + iv[k] + OffsetOfKey(key)) % 12

\* C7: for every parsed chord, every supported key and each of the five scale
\* notes, the syllable is the entry at index t of the flat-styled alphabet
\* when the chord is flat-notated or natural minor, and of the sharp-styled
\* alphabet otherwise, t = (scale pitch class + key offset) mod 12.  A
\* flat-preferring chord never shows a "#" syllable, any other chord never a
\* "b" syllable, and the raw pitch label is never returned.
C7_SyllableAlphabet ==
    pc = "done" =>
        LET p == get_root_and_type(chord_name_raw)
        IN /\ p.root # None
           /\ Len(solfege_notes_display) = 5
           /\ \A k \in 1..5 :
                  LET t == RenderedIndex(p, render_key, k)
                      syllable == solfege_notes_display[k]
                  IN /\ syllable = IF PrefersFlat(p)
                                   THEN SOLFEGE_FLAT[t + 1]
                                   ELSE SOLFEGE_SHARP[t + 1]
                     /\ PrefersFlat(p) => ~HasSharpSign(syllable)
                     /\ ~PrefersFlat(p) => ~HasFlatSign(syllable)
                     /\ syllable \in Range(SOLFEGE_SHARP) \cup Range(SOLFEGE_FLAT)

\* "Am" for an Eb instrument: a natural minor chord takes the flat alphabet
C7_Witness ==
    /\ pc = "done"
    /\ chord_name_raw = <<"A", "m">>
    /\ render_key = <<"E", "b">>
    /\ solfege_notes_display = << <<"so","b">>, <<"la">>, <<"si">>, <<"re","b">>, <<"mi">> >>

\* the spelling the equivalence table alone gives: the flat name of an
\* accidental for a flat-preferring chord, the sharp-form name otherwise
TableSpelling(p, note) ==
    IF PrefersFlat(p) /\ note \in DOMAIN ENHARMONIC_EQUIVALENTS
    THEN ENHARMONIC_EQUIVALENTS[note]
    ELSE note

ForcedNotes == { <<"D","#">>, <<"G","#">>, <<"A","#">> }

\* C12: the forced mapping of D#, G# and A# to Eb, Ab and Bb is redundant:
\* for every parsed chord, every supported key and every scale note, the
\* spelling chosen equals the one the sharp-to-flat equivalence lookup alone
\* gives, and so does the rendered syllable.
C12_ForcedMappingRedundant ==
    pc = "done" =>
        LET p == get_root_and_type(chord_name_raw)
        IN /\ Len(notes_for_solfege) = 5
           /\ \A k \in 1..5 :
                  LET transposed == SharpName(RenderedIndex(p, render_key, k))
                  IN /\ notes_for_solfege[k] = TableSpelling(p, transposed)
                     /\ solfege_notes_display[k] =
                            get_solfege_name(TableSpelling(p, transposed), <<"C">>)

\* "Cm" for a C instrument: D# and A# fall under the forced mapping
C12_Witness ==
    /\ pc = "done"
    /\ chord_name_raw = <<"C", "m">>
    /\ render_key = <<"C">>
    /\ notes_for_solfege = << <<"C">>, <<"E","b">>, <<"F">>, <<"G">>, <<"B","b">> >>
    /\ \E k \in 1..5 : SharpName(RenderedIndex(get_root_and_type(chord_name_raw),
                                                render_key, k)) \in ForcedNotes

(***************************************************************************)
(* Properties of the progression analysis (Spec).                          *)
(***************************************************************************)
IsBlank(s) == \A i \in 1..Len(s) : s[i] = " "

\* the progression the widgets hold: per measure, the non-blank chord strings
ProgressionOf(rows, n) ==
    [m \in 1..n |->
        IF m <= Len(rows)
        THEN SelectSeq(<<Strip(rows[m][1]), Strip(rows[m][2])>>, LAMBDA ch : ch # <<>>)
        ELSE <<>>]

\* a chord symbol that matches no known root spelling
IsUnrecognised(chord) == ValidPrefixLengths(CandidateOf(chord)) = {}

SupportedKey == OffsetOfKey(key_var) # NoOffset
CountIsNumber == \A i \in 1..Len(measure_count_var) : DigitValue(measure_count_var[i]) >= 0
Analysed == pc = "done" /\ SupportedKey /\ measure_count_var # <<>> /\ CountIsNumber

Progression == ProgressionOf(measure_vars, IntOf(measure_count_var))
ChordsOf(progression) == Flatten(progression)

NothingProduced ==
    /\ all_measures_data = <<>>
    /\ all_solfege_notes_for_counting = <<>>
    /\ top_3_notes_info = <<>>
    /\ result_text = <<>>

\* C6 as stated: with an unknown instrument key the analysis ends with the
\* unknown-instrument-key outcome for every progression and produces nothing.
C6_UnknownKeyAsStated ==
    (pc = "done" /\ ~SupportedKey) => (outcome = "invalid_key" /\ NothingProduced)

\* C6 (amended): with an unknown instrument key that is not blank the analysis
\* ends with the unknown-instrument-key outcome, and with an empty or blank
\* key with the no-key-selected outcome, for every progression (empty,
\* unparseable, or with a bad measure count); in both cases no chord is
\* parsed, nothing is rendered, tallied or ranked, and the outcome is never
\* the empty-progression outcome nor a per-chord result.
C6_UnknownKeyFails ==
    (pc = "done" /\ ~SupportedKey) =>
        /\ outcome = IF IsBlank(key_var) THEN "no_key" ELSE "invalid_key"
        /\ NothingProduced

\* key "G" with a progression that holds a chord and an unparseable chord
C6_Witness ==
    /\ pc = "done"
    /\ key_var = <<"G">>
    /\ measure_count_var = <<"1">>
    /\ measure_vars = << << <<"C">>, <<"H">> >> >>
    /\ outcome = "invalid_key"

\* the syllables displayed, in measure, chord and scale order
Rendered == Flatten([m \in 1..Len(result_text) |->
                Flatten([c \in 1..Len(result_text[m]) |-> result_text[m][c].notes])])

Occurrences(list, s) == Cardinality({i \in 1..Len(list) : list[i] = s})
FirstPosition(list, s) == CHOOSE i \in 1..Len(list) : list[i] = s /\ \A j \in 1..(i - 1) : list[j] # s
RankedSyllables == {top_3_notes_info[i][1] : i \in 1..Len(top_3_notes_info)}

\* C8: the ranking has at most 3 entries with non-increasing counts, each
\* count is the number of times the syllable was rendered over all parseable
\* chords of all measures (both chords of a measure), syllables with equal
\* counts stand in the order of their first rendering, every syllable left
\* out counts no more than the last ranked one, and for a single chord the
\* five syllables have count 1 each.
C8_FrequencyRanking ==
    Analysed =>
        LET T == top_3_notes_info
            R == Rendered
        IN /\ Len(T) <= 3
           /\ R = all_solfege_notes_for_counting
           /\ Len(R) = 5 * Cardinality({i \in 1..Len(ChordsOf(Progression)) :
                                           ~IsUnrecognised(ChordsOf(Progression)[i])})
           /\ \A i \in 1..Len(T) : T[i][1] \in Range(R) /\ T[i][2] = Occurrences(R, T[i][1])
           /\ \A i, j \in 1..Len(T) :
                  i < j => /\ T[i][1] # T[j][1]
                           /\ T[i][2] >= T[j][2]
                           /\ T[i][2] = T[j][2] =>
                                  FirstPosition(R, T[i][1]) < FirstPosition(R, T[j][1])
           /\ \A s \in Range(R) \ RankedSyllables :
                  /\ Len(T) = 3
                  /\ Occurrences(R, s) <= T[3][2]
                  /\ Occurrences(R, s) = T[3][2] =>
                         FirstPosition(R, s) > FirstPosition(R, T[3][1])
           /\ Len(R) = 5 =>
                  /\ \A s \in Range(R) : Occurrences(R, s) = 1
                  /\ T = << <<R[1], 1>>, <<R[2], 1>>, <<R[3], 1>> >>

\* "C" and "Am" in one measure for a Bb instrument: re, mi, la and si are
\* rendered twice, fa# and sob once; si is left out by the order of rendering
C8_Witness ==
    /\ pc = "done"
    /\ key_var = <<"B", "b">>
    /\ Rendered = << <<"re">>, <<"mi">>, <<"fa","#">>, <<"la">>, <<"si">>,
                     <<"si">>, <<"re">>, <<"mi">>, <<"so","b">>, <<"la">> >>
    /\ top_3_notes_info = << << <<"re">>, 2 >>, << <<"mi">>, 2 >>, << <<"la">>, 2 >> >>

\* the widget rows with every unrecognised chord blanked
WithoutUnrecognised(rows) ==
    [m \in 1..Len(rows) |->
        << IF IsUnrecognised(Strip(rows[m][1])) THEN <<>> ELSE rows[m][1],
           IF IsUnrecognised(Strip(rows[m][2])) THEN <<>> ELSE rows[m][2] >>]

RecognisedLines(text) ==
    [m \in 1..Len(text) |-> SelectSeq(text[m], LAMBDA line : ~IsUnrecognised(line.chord))]

\* C9: when a progression analysed with a supported key holds a chord symbol
\* that matches no root spelling, the analysis does not fail; that chord
\* occurrence alone is marked invalid and adds nothing to the tally, and
\* every other chord is rendered and counted exactly as if it were absent.
C9_InvalidChordIsolated ==
    (Analysed /\ \E i \in 1..Len(ChordsOf(Progression)) :
                     IsUnrecognised(ChordsOf(Progression)[i])) =>
        LET without == RunAnalysis(key_var, measure_count_var,
                                   WithoutUnrecognised(measure_vars))
        IN /\ outcome = "shown"
           /\ Len(result_text) = Len(Progression)
           /\ \A m \in 1..Len(result_text) :
                  /\ Len(result_text[m]) = Len(Progression[m])
                  /\ \A c \in 1..Len(result_text[m]) :
                         /\ result_text[m][c].chord = Progression[m][c]
                         /\ IsUnrecognised(Progression[m][c]) <=>
                                result_text[m][c].notes = <<>>
           /\ all_solfege_notes_for_counting = without.counted
           /\ top_3_notes_info = without.top_3
           /\ without.outcome = "shown" => RecognisedLines(result_text) = without.text
           /\ without.outcome # "shown" => Rendered = <<>>

\* "H" between "C" and "Am": both neighbours are rendered and counted
C9_Witness ==
    /\ pc = "done"
    /\ key_var = <<"C">>
    /\ measure_count_var = <<"2">>
    /\ measure_vars = << << <<"C">>, <<"H">> >>, << <<"A","m">>, <<>> >> >>
    /\ outcome = "shown"
    /\ result_text[1][2].notes = <<>>
    /\ top_3_notes_info = << << <<"do">>, 2 >>, << <<"re">>, 2 >>, << <<"mi">>, 2 >> >>

\* C10: with a supported key the analysis ends with the empty-progression
\* outcome exactly when no measure holds a chord string (zero measures
\* included); a progression whose only chords are unparseable is not empty:
\* it is shown with every chord marked invalid and an empty ranking.
C10_EmptyProgression ==
    Analysed =>
        /\ outcome = "no_chords" <=> ChordsOf(Progression) = <<>>
        /\ outcome \in {"no_chords", "shown"}
        /\ (ChordsOf(Progression) # <<>>
            /\ \A i \in 1..Len(ChordsOf(Progression)) :
                   IsUnrecognised(ChordsOf(Progression)[i])) =>
               /\ outcome = "shown"
               /\ top_3_notes_info = <<>>
               /\ \E m \in 1..Len(result_text) : result_text[m] # <<>>
               /\ \A m \in 1..Len(result_text) : \A c \in 1..Len(result_text[m]) :
                      result_text[m][c].notes = <<>>

\* a progression whose only chord is "H"
C10_Witness ==
    /\ pc = "done"
    /\ key_var = <<"C">>
    /\ measure_count_var = <<"2">>
    /\ measure_vars = << << <<>>, <<"H">> >>, << <<>>, <<>> >> >>
    /\ outcome = "shown"
    /\ top_3_notes_info = <<>>

====
